---- MODULE Spec2Model ----
\* A model of hypr-blue-light.py: the state file, the weather cache, the
\* hyprsunset display process, the daemon process and the CLI commands.
\*
\* Every handler is written as a chain of steps over a context record
\*   [st, file, wcache, weather, display, applied, notes, raised, decided]
\* st       the process's self.state (a JSON object: the keys it holds and
\*          their values; a key that is absent holds a fixed filler value)
\* file     the content of STATE_FILE
\* wcache   the content of CACHE_DIR/weather.json
\* display  the hyprsunset process in effect
\* applied  the calls of apply_temperature made so far, with the launch outcome
\* notes    the notifications sent so far
\* raised   an exception is propagating (the rest of the handler is skipped)
\* decided  the value calculate_temperature returned (0: none)
\*
\* Environment assumptions: the log file, the state file and the weather cache
\* are writable, notify-send and pkill are installed, and the state file, when
\* it parses as JSON, holds an object over the three field names.
EXTENDS Integers, Sequences, FiniteSets, TLC

VARIABLES
    file,      \* STATE_FILE: [kind, obj]
    wcache,    \* weather.json: a payload, or NoWeather
    display,   \* the hyprsunset process in effect: [running, temp]
    daemon,    \* the daemon process: [pc, st]
    out,       \* what the last handler did (history)
    wr,        \* a save_state in progress between open(..., 'w') and close
    rd,        \* what the last separate load_state observed
    env,       \* the conditions that hold while they stay unchanged: [hour, fetch]
    seen,      \* what the last get_weather of a `status` command did (history)
    proc       \* how the last process that printed an error or was signalled ended

\* The variables only the specifications further down use.
aux == <<env, seen, proc>>

vars == <<file, wcache, display, daemon, out, wr, rd, env, seen, proc>>

\* ---------------------------------------------------------------- constants

DAY_CLEAR == 6500
DAY_CLOUDY == 5800
DAY_RAINY == 5200
NIGHT_DEFAULT == 4200
NIGHT_COLD == 3800
BLUELIGHT_ON == 4000
MANUAL_ON == 5000
MANUAL_OFF == 6500
DEFAULT_LAST_TEMP == 4500

\* ------------------------------------------------------------------- bounds

\* How many distinct values the `test <kelvin>` command is tried with.
MaxTestKelvins == 1

TestKelvins == {2500 + 500 * i : i \in 1..MaxTestKelvins}

\* The UTC hours the environment draws: one of the night, one of the day.
SampleHours == {3, 12}

\* The weather the provider answers with.
EnvConditions == {"Clear", "Rain"}
EnvAmbientTenths == {50}

\* The outcomes of subprocess.Popen(['hyprsunset', ...]).
LaunchOutcomes == {"ok", "notfound", "error"}

\* ------------------------------------------------------------- state record

Fields == {"manual", "bluelight", "last_temp"}

Blank == [keys |-> {}, manual |-> FALSE, bluelight |-> FALSE, last_temp |-> 0]

DefaultState ==
    [keys |-> Fields, manual |-> FALSE, bluelight |-> FALSE,
     last_temp |-> DEFAULT_LAST_TEMP]

MissingFile == [kind |-> "missing", obj |-> Blank]
EmptyFile == [kind |-> "empty", obj |-> Blank]
GarbageFile == [kind |-> "garbage", obj |-> Blank]

JsonFile(st) == [kind |-> "json", obj |-> st]

Has(st, k) == k \in st.keys

Mode(st) ==
    IF st.keys # Fields THEN "Invalid"
    ELSE IF ~st.manual THEN "Automatic"
    ELSE IF st.bluelight THEN "Manual-FilterOn"
    ELSE "Manual-FilterOff"

\* ------------------------------------------------------------------ weather

NoWeather == [present |-> FALSE, ok |-> FALSE, main |-> "", temp |-> 0]

\* A JSON answer without the 'weather' and 'main' fields (the provider's
\* error body, which response.json() parses like any other).
ErrorPayload == [present |-> TRUE, ok |-> FALSE, main |-> "", temp |-> 0]

Payload(cond, tenths) == [present |-> TRUE, ok |-> TRUE, main |-> cond, temp |-> tenths]

EnvPayloads ==
    {Payload(c, t) : c \in EnvConditions, t \in EnvAmbientTenths} \cup {ErrorPayload}

Fetches ==
    {[how |-> "nokey", data |-> NoWeather], [how |-> "fail", data |-> NoWeather]}
        \cup {[how |-> "response", data |-> p] : p \in EnvPayloads}

\* ------------------------------------------------------------------ context

NoDisplay == [running |-> FALSE, temp |-> 0]

Ctx(st) ==
    [st |-> st, file |-> file, wcache |-> wcache, weather |-> NoWeather,
     display |-> display, applied |-> <<>>, notes |-> <<>>, raised |-> FALSE,
     decided |-> 0]

Raise(c) == [c EXCEPT !.raised = TRUE]

notify(c, message) == [c EXCEPT !.notes = Append(@, message)]

\* load_state: the JSON object of the file, the default record when the file
\* is missing or is not JSON.
load_state(f) == IF f.kind = "json" THEN f.obj ELSE DefaultState

\* save_state: the whole of self.state replaces the file.
save_state(c) == [c EXCEPT !.file = JsonFile(c.st)]

\* ---------------------------------------------------------- WeatherProvider

\* get_weather: a response is cached and returned whatever it holds; without
\* an API key, or when the request raises, the cached payload (None without
\* one). get_coordinates, called first, always returns coordinates and does
\* not bear on the state modelled here.
get_weather(c, fetch) ==
    IF fetch.how = "response"
    THEN [c EXCEPT !.wcache = fetch.data, !.weather = fetch.data]
    ELSE [c EXCEPT !.weather = c.wcache]

\* -------------------------------------------------------- TemperatureDecider

\* is_night with the evening starting after hour 20.
is_night_after_20(current_hour) == current_hour < 6 \/ current_hour > 20

is_night(current_hour) == current_hour < 6 \/ current_hour >= 20

RainyConditions == {"Rain", "Drizzle", "Thunderstorm"}

\* The value calculate_temperature returns for a payload that holds the
\* fields it reads, or for no payload. The ambient temperature is in tenths
\* of a degree: temp < 5 is tenths < 50.
auto_temp(current_hour, weather) ==
    IF ~weather.present
    THEN (IF is_night(current_hour) THEN NIGHT_DEFAULT ELSE DAY_CLEAR)
    ELSE IF is_night(current_hour)
    THEN (IF weather.main \in RainyConditions THEN NIGHT_COLD
          ELSE IF weather.temp < 50 THEN NIGHT_COLD ELSE NIGHT_DEFAULT)
    ELSE (IF weather.main = "Clear" THEN DAY_CLEAR
          ELSE IF weather.main \in RainyConditions THEN DAY_RAINY
          ELSE DAY_CLOUDY)

\* calculate_temperature: reads self.state['bluelight'] (KeyError when the
\* key is absent), fetches the weather, and raises KeyError on a payload
\* without the fields it subscripts.
calculate_temperature(c, current_hour, fetch) ==
    IF ~Has(c.st, "bluelight") THEN Raise(c)
    ELSE LET w == get_weather(c, fetch)
         IN IF w.weather.present /\ ~w.weather.ok THEN Raise(w)
            ELSE [w EXCEPT !.decided = auto_temp(current_hour, w.weather)]

\* ------------------------------------------------------------ DisplayApplier

\* apply_temperature with the bookkeeping moved out of the try: last_temp is
\* set and saved whatever Popen did.
apply_temperature_records_failure(c, temp, launch) ==
    LET killed == [c EXCEPT !.display = NoDisplay,
                            !.applied = Append(@, [temp |-> temp, launch |-> launch]),
                            !.st.last_temp = temp,
                            !.st.keys = @ \cup {"last_temp"}]
    IN CASE launch = "ok" ->
              notify(save_state([killed EXCEPT
                         !.display = [running |-> TRUE, temp |-> temp]]),
                     "temperature_set")
         [] launch = "notfound" -> notify(save_state(killed), "error_not_installed")
         [] OTHER -> notify(save_state(killed), "error_setting_temperature")

\* apply_temperature without the bookkeeping of a launch that succeeds:
\* last_temp keeps its value and the state is not saved.
apply_temperature_forgets_record(c, temp, launch) ==
    LET killed == [c EXCEPT !.display = NoDisplay,
                            !.applied = Append(@, [temp |-> temp, launch |-> launch])]
    IN CASE launch = "ok" ->
              notify([killed EXCEPT !.display = [running |-> TRUE, temp |-> temp]],
                     "temperature_set")
         [] launch = "notfound" -> notify(killed, "error_not_installed")
         [] OTHER -> notify(killed, "error_setting_temperature")

\* apply_temperature: pkill hyprsunset, then Popen. Only a Popen that
\* succeeds sets last_temp, saves the state and announces the temperature;
\* both failures are notified and swallowed.
apply_temperature(c, temp, launch) ==
    LET killed == [c EXCEPT !.display = NoDisplay,
                            !.applied = Append(@, [temp |-> temp, launch |-> launch])]
    IN CASE launch = "ok" ->
              notify(save_state([killed EXCEPT
                         !.display = [running |-> TRUE, temp |-> temp],
                         !.st.last_temp = temp,
                         !.st.keys = @ \cup {"last_temp"}]),
                     "temperature_set")
         [] launch = "notfound" -> notify(killed, "error_not_installed")
         [] OTHER -> notify(killed, "error_setting_temperature")

\* ------------------------------------------------------------ ModeController

\* update_temperature without the comparison with last_temp.
update_temperature_always_applies(c, current_hour, fetch, launch) ==
    IF ~Has(c.st, "manual") THEN Raise(c)
    ELSE IF c.st.manual THEN c
    ELSE LET k == calculate_temperature(c, current_hour, fetch)
         IN IF k.raised THEN k
            ELSE IF ~Has(k.st, "last_temp") THEN Raise(k)
            ELSE apply_temperature(k, k.decided, launch)

\* update_temperature (reconcile): works on self.state as the process holds
\* it; the state file is not read again.
update_temperature(c, current_hour, fetch, launch) ==
    IF ~Has(c.st, "manual") THEN Raise(c)
    ELSE IF c.st.manual THEN c
    ELSE LET k == calculate_temperature(c, current_hour, fetch)
         IN IF k.raised THEN k
            ELSE IF ~Has(k.st, "last_temp") THEN Raise(k)
            ELSE IF k.decided # k.st.last_temp
            THEN apply_temperature(k, k.decided, launch)
            ELSE k

\* The switch to automatic without the reset of the filter flag.
SetAutomaticKeepsFilter(c) ==
    [c EXCEPT !.st.manual = FALSE, !.st.keys = @ \cup {"manual"}]

SetAutomatic(c) ==
    [c EXCEPT !.st.manual = FALSE, !.st.bluelight = FALSE,
              !.st.keys = @ \cup {"manual", "bluelight"}]

SetManual(c) ==
    [c EXCEPT !.st.manual = TRUE, !.st.bluelight = FALSE,
              !.st.keys = @ \cup {"manual", "bluelight"}]

\* toggle_bluelight taking the BLUELIGHT_ON entry of the profile.
toggle_bluelight_profile_on(c, launch) ==
    IF ~Has(c.st, "manual") THEN Raise(c)
    ELSE IF ~c.st.manual THEN notify(c, "cannot_toggle_in_automatic")
    ELSE IF ~Has(c.st, "bluelight") THEN Raise(c)
    ELSE LET f == [c EXCEPT !.st.bluelight = ~@]
             temp == IF f.st.bluelight THEN BLUELIGHT_ON ELSE MANUAL_OFF
             s == save_state(apply_temperature(f, temp, launch))
         IN notify(s, IF s.st.bluelight THEN "filter_toggled_on"
                      ELSE "filter_toggled_off")

\* toggle_bluelight without the check of the mode.
toggle_bluelight_unguarded(c, launch) ==
    IF ~Has(c.st, "bluelight") THEN Raise(c)
    ELSE LET f == [c EXCEPT !.st.bluelight = ~@]
             temp == IF f.st.bluelight THEN MANUAL_ON ELSE MANUAL_OFF
             s == save_state(apply_temperature(f, temp, launch))
         IN notify(s, IF s.st.bluelight THEN "filter_toggled_on"
                      ELSE "filter_toggled_off")

toggle_bluelight(c, launch) ==
    IF ~Has(c.st, "manual") THEN Raise(c)
    ELSE IF ~c.st.manual THEN notify(c, "cannot_toggle_in_automatic")
    ELSE IF ~Has(c.st, "bluelight") THEN Raise(c)
    ELSE LET f == [c EXCEPT !.st.bluelight = ~@]
             temp == IF f.st.bluelight THEN MANUAL_ON ELSE MANUAL_OFF
             s == save_state(apply_temperature(f, temp, launch))
         IN notify(s, IF s.st.bluelight THEN "filter_toggled_on"
                      ELSE "filter_toggled_off")

\* toggle_manual_mode leaving the save of the manual flag to
\* apply_temperature, which saves only after a launch that succeeds.
toggle_manual_mode_unsaved(c, current_hour, fetch, launch) ==
    LET r == [c EXCEPT !.st = load_state(c.file)]
    IN IF ~Has(r.st, "manual") THEN Raise(r)
       ELSE IF r.st.manual
       THEN update_temperature(
                notify(save_state(SetAutomatic(r)), "switched_to_automatic"),
                current_hour, fetch, launch)
       ELSE notify(apply_temperature(SetManual(r), MANUAL_OFF, launch),
                   "switched_to_manual_neutral")

toggle_manual_mode(c, current_hour, fetch, launch) ==
    LET r == [c EXCEPT !.st = load_state(c.file)]
    IN IF ~Has(r.st, "manual") THEN Raise(r)
       ELSE IF r.st.manual
       THEN update_temperature(
                notify(save_state(SetAutomatic(r)), "switched_to_automatic"),
                current_hour, fetch, launch)
       ELSE notify(apply_temperature(save_state(SetManual(r)), MANUAL_OFF, launch),
                   "switched_to_manual_neutral")

toggle_auto_mode(c, current_hour, fetch, launch) ==
    IF ~Has(c.st, "manual") THEN Raise(c)
    ELSE IF c.st.manual
    THEN update_temperature(
             notify(save_state(SetAutomatic(c)), "switched_to_automatic"),
             current_hour, fetch, launch)
    ELSE notify(c, "already_automatic")

\* force_manual_mode without the check of the mode.
force_manual_mode_unguarded(c, launch) ==
    IF ~Has(c.st, "manual") THEN Raise(c)
    ELSE notify(save_state(apply_temperature(SetManual(c), MANUAL_OFF, launch)),
                "switched_to_manual_neutral")

force_manual_mode(c, launch) ==
    IF ~Has(c.st, "manual") THEN Raise(c)
    ELSE IF ~c.st.manual
    THEN notify(save_state(apply_temperature(SetManual(c), MANUAL_OFF, launch)),
                "switched_to_manual_neutral")
    ELSE notify(c, "already_manual")

\* status: the state file is read again, the weather fetched, the report
\* printed; nothing else is written.
status(c, fetch) == get_weather([c EXCEPT !.st = load_state(c.file)], fetch)

\* -------------------------------------------------------------------- Daemon

\* run_daemon up to the loop: the starting notification, then the initial
\* update_temperature, outside any try.
run_daemon_start(c, current_hour, fetch, launch) ==
    LET n == notify(c, "starting")
    IN IF ~Has(n.st, "manual") THEN Raise(n)
       ELSE IF ~n.st.manual THEN update_temperature(n, current_hour, fetch, launch)
       ELSE n

\* ------------------------------------------------------------------- actions

IdleWrite == [pc |-> "idle", old |-> MissingFile, new |-> MissingFile]
NoRead == [done |-> FALSE, got |-> Blank, old |-> MissingFile, new |-> MissingFile]

\* The variables of aux before anything used them.
NoEnv == [hour |-> 0, fetch |-> [how |-> "fail", data |-> NoWeather]]
NotSeen ==
    [done |-> FALSE, fetch |-> [how |-> "fail", data |-> NoWeather],
     returned |-> NoWeather, lastGood |-> NoWeather]
NoProc == [cmd |-> "none", exit |-> 0, printed |-> "none"]
AuxInit == env = NoEnv /\ seen = NotSeen /\ proc = NoProc

Init ==
    /\ file = MissingFile
    /\ wcache = NoWeather
    /\ display = NoDisplay
    /\ daemon = [pc |-> "off", st |-> Blank]
    /\ out = [op |-> "none", mode0 |-> "Automatic", applied |-> <<>>,
              notes |-> <<>>, raised |-> FALSE, decided |-> 0,
              prevMode0 |-> "none"]
    /\ wr = IdleWrite
    /\ rd = NoRead
    /\ AuxInit

\* What a handler leaves behind: the files, the display, and its record.
\* c0 is the context the handler started from, c1 the one it ended with.
\* prevMode0 is the mode the preceding handler started from when that was a
\* run of the same command, "none" otherwise.
Commit(op, c0, c1) ==
    /\ file' = c1.file
    /\ wcache' = c1.wcache
    /\ display' = c1.display
    /\ out' = [op |-> op, mode0 |-> Mode(c0.st), applied |-> c1.applied,
               notes |-> c1.notes, raised |-> c1.raised, decided |-> c1.decided,
               prevMode0 |-> IF out.op = op THEN out.mode0 ELSE "none"]

\* A CLI command is a process of its own: ScreenLightManager() loads the
\* state file, the command runs, the process ends.
CliStart == Ctx(load_state(file))

\* `toggle`
CliToggle ==
    \E launch \in LaunchOutcomes :
        /\ Commit("toggle", CliStart, toggle_bluelight(CliStart, launch))
        /\ UNCHANGED <<daemon, wr, rd, aux>>

\* `manual`
CliManual ==
    \E h \in SampleHours, fetch \in Fetches, launch \in LaunchOutcomes :
        /\ Commit("manual", CliStart, toggle_manual_mode(CliStart, h, fetch, launch))
        /\ UNCHANGED <<daemon, wr, rd, aux>>

\* `auto`
CliAuto ==
    \E h \in SampleHours, fetch \in Fetches, launch \in LaunchOutcomes :
        /\ Commit("auto", CliStart, toggle_auto_mode(CliStart, h, fetch, launch))
        /\ UNCHANGED <<daemon, wr, rd, aux>>

\* `force-manual`
CliForceManual ==
    \E launch \in LaunchOutcomes :
        /\ Commit("force-manual", CliStart, force_manual_mode(CliStart, launch))
        /\ UNCHANGED <<daemon, wr, rd, aux>>

\* `test <kelvin>` with an integer argument
CliTest ==
    \E temp \in TestKelvins, launch \in LaunchOutcomes :
        /\ Commit("test", CliStart, apply_temperature(CliStart, temp, launch))
        /\ UNCHANGED <<daemon, wr, rd, aux>>

\* No arguments: ScreenLightManager() loads the state file and run_daemon
\* runs up to its loop. An exception here leaves the process.
DaemonStart ==
    /\ daemon.pc \in {"off", "crashed", "stopped"}
    /\ wr.pc = "idle"
    /\ \E h \in SampleHours, fetch \in Fetches, launch \in LaunchOutcomes :
           LET c1 == run_daemon_start(CliStart, h, fetch, launch)
           IN /\ Commit("start", CliStart, c1)
              /\ daemon' = [pc |-> IF c1.raised THEN "crashed" ELSE "loop",
                            st |-> c1.st]
    /\ UNCHANGED <<wr, rd, aux>>

\* One iteration of the loop of run_daemon: update_temperature inside the
\* try, then the five minute sleep, or the one minute sleep of the handler.
DaemonTick ==
    /\ daemon.pc \in {"loop", "sleep", "backoff"}
    /\ wr.pc = "idle"
    /\ \E h \in SampleHours, fetch \in Fetches, launch \in LaunchOutcomes :
           LET c0 == Ctx(daemon.st)
               c1 == update_temperature(c0, h, fetch, launch)
           IN /\ Commit("tick", c0, c1)
              /\ daemon' = [pc |-> IF c1.raised THEN "backoff" ELSE "sleep",
                            st |-> c1.st]
    /\ UNCHANGED <<wr, rd, aux>>

Next ==
    \/ CliToggle
    \/ CliManual
    \/ CliAuto
    \/ CliForceManual
    \/ CliTest
    \/ DaemonStart
    \/ DaemonTick

Spec == Init /\ [][Next]_vars

\* ------------------------------------------- the state file, call by call

\* The contents a state file can hold when a process starts: none, text that
\* is not JSON, or a JSON object over any of the three field names.
InitialLastTemps == {DEFAULT_LAST_TEMP, MANUAL_OFF}

JsonObjects ==
    {[keys |-> ks,
      manual |-> IF "manual" \in ks THEN m ELSE FALSE,
      bluelight |-> IF "bluelight" \in ks THEN b ELSE FALSE,
      last_temp |-> IF "last_temp" \in ks THEN t ELSE 0] :
        ks \in SUBSET Fields, m \in BOOLEAN, b \in BOOLEAN, t \in InitialLastTemps}

AnyFiles == {MissingFile, GarbageFile} \cup {JsonFile(o) : o \in JsonObjects}

InitAnyFile ==
    /\ file \in AnyFiles
    /\ wcache = NoWeather
    /\ display = NoDisplay
    /\ daemon = [pc |-> "off", st |-> Blank]
    /\ out = [op |-> "none", mode0 |-> "Automatic", applied |-> <<>>,
              notes |-> <<>>, raised |-> FALSE, decided |-> 0,
              prevMode0 |-> "none"]
    /\ wr = IdleWrite
    /\ rd = NoRead
    /\ AuxInit

\* save_state of a daemon tick, up to open(STATE_FILE, 'w'): the file is
\* truncated, nothing is written yet. The tick is one whose Popen succeeds,
\* so that apply_temperature reaches save_state. out carries the record of
\* the whole tick from here on (its notification follows the close).
TickSaveOpen ==
    /\ daemon.pc \in {"loop", "sleep", "backoff"}
    /\ wr.pc = "idle"
    /\ \E h \in SampleHours, fetch \in Fetches :
           LET c0 == Ctx(daemon.st)
               c1 == update_temperature(c0, h, fetch, "ok")
           IN /\ c1.applied # <<>>
              /\ Commit("tick", c0, [c1 EXCEPT !.file = EmptyFile])
              /\ wr' = [pc |-> "opened", old |-> file, new |-> c1.file]
              /\ daemon' = [pc |-> "saving", st |-> c1.st]
    /\ UNCHANGED <<rd, aux>>

\* json.dump and the close of the with block: the record reaches the file.
TickSaveClose ==
    /\ daemon.pc = "saving"
    /\ wr.pc = "opened"
    /\ file' = wr.new
    /\ wr' = IdleWrite
    /\ daemon' = [daemon EXCEPT !.pc = "sleep"]
    /\ UNCHANGED <<wcache, display, out, rd, aux>>

\* ScreenLightManager() of a CLI process started at any moment: load_state.
\* old and new are the file's content before and after the save in progress
\* (both the file's content when none is).
CliLoad ==
    /\ rd' = [done |-> TRUE, got |-> load_state(file),
              old |-> IF wr.pc = "opened" THEN wr.old ELSE file,
              new |-> IF wr.pc = "opened" THEN wr.new ELSE file]
    /\ UNCHANGED <<file, wcache, display, daemon, out, wr, aux>>

NextCalls ==
    \/ DaemonStart
    \/ DaemonTick
    \/ TickSaveOpen
    \/ TickSaveClose
    \/ CliLoad

SpecCalls == InitAnyFile /\ [][NextCalls]_vars

\* ------------------------------------------- status and the usage messages

\* A fetch that brought the provider's weather: a response that holds the
\* fields of a weather report.
FetchSucceeded(fetch) == fetch.how = "response" /\ fetch.data.ok

\* `status`. seen keeps the fetch, what get_weather returned, and the payload
\* of the last fetch that succeeded.
CliStatus ==
    \E fetch \in Fetches :
        LET c1 == status(CliStart, fetch)
        IN /\ Commit("status", CliStart, c1)
           /\ seen' = [done |-> TRUE, fetch |-> fetch, returned |-> c1.weather,
                       lastGood |-> IF FetchSucceeded(fetch) THEN fetch.data
                                    ELSE seen.lastGood]
           /\ UNCHANGED <<daemon, wr, rd, env, proc>>

\* The command lines the dispatch answers with a message only: a command it
\* does not know, `test` without an argument, `test` with an argument that
\* int() rejects.
UsageCommands == {"unknown", "test-noarg", "test-notint"}

\* The message is printed and the script runs to its end: exit status 0.
usage_message(cmd) ==
    [cmd |-> cmd, exit |-> 0,
     printed |-> IF cmd = "test-notint" THEN "invalid_temperature" ELSE "usage"]

\* A command the dispatch does not know.
CliUnknown ==
    /\ Commit("unknown", CliStart, CliStart)
    /\ proc' = usage_message("unknown")
    /\ UNCHANGED <<daemon, wr, rd, env, seen>>

\* `test` without a temperature int() accepts.
CliTestUsage ==
    \E cmd \in {"test-noarg", "test-notint"} :
        /\ Commit(cmd, CliStart, CliStart)
        /\ proc' = usage_message(cmd)
        /\ UNCHANGED <<daemon, wr, rd, env, seen>>

NextTools ==
    \/ CliStatus
    \/ CliUnknown
    \/ CliTestUsage
    \/ CliTest
    \/ CliForceManual
    \/ CliToggle

SpecTools == Init /\ [][NextTools]_vars

\* The five commands that change the mode, the filter or the display.
NextCommands ==
    \/ CliToggle
    \/ CliManual
    \/ CliAuto
    \/ CliForceManual
    \/ CliTest

SpecCommands == Init /\ [][NextCommands]_vars

\* ------------------------------------------------- signals and the session

Signals == {"SIGINT", "SIGTERM"}

\* A signal reaches the daemon. SIGINT is raised as KeyboardInterrupt, which
\* no `except Exception` on the way catches and the entry point answers with
\* the notification, after which the script ends: exit status 0. SIGTERM has
\* no handler: the process is terminated by the signal (status 128 + 15).
DaemonSignal ==
    /\ daemon.pc \in {"loop", "sleep", "backoff"}
    /\ wr.pc = "idle"
    /\ \E sig \in Signals :
           LET c0 == Ctx(daemon.st)
               c1 == IF sig = "SIGINT" THEN notify(c0, "service_stopped") ELSE c0
           IN /\ Commit("signal", c0, c1)
              /\ proc' = [cmd |-> sig, exit |-> IF sig = "SIGINT" THEN 0 ELSE 143,
                          printed |-> "none"]
    /\ daemon' = [pc |-> "stopped", st |-> daemon.st]
    /\ UNCHANGED <<wr, rd, env, seen>>

\* The hyprsunset process, which nothing supervises once Popen returned,
\* ends with the session it was started in.
DisplayExit ==
    /\ display.running
    /\ display' = NoDisplay
    /\ UNCHANGED <<file, wcache, daemon, out, wr, rd, aux>>

NextSignal ==
    \/ DaemonStart
    \/ DaemonTick
    \/ DaemonSignal
    \/ DisplayExit

SpecSignal == Init /\ [][NextSignal]_vars

\* ------------------------------------------------------ unchanged conditions

\* How far, in tenths of a degree, the ambient temperature is taken on either
\* side of 5.0.
AmbientRadius == 2

AllHours == 0..23

\* The three rainy conditions, Clear, and one of the others.
TableConditions == {"Clear", "Rain", "Drizzle", "Thunderstorm", "Clouds"}

TablePayloads ==
    {Payload(c, t) : c \in TableConditions,
                     t \in (50 - AmbientRadius)..(50 + AmbientRadius)}

\* An hour and an answer of the provider that stay as they are.
EnvChoices ==
    {[hour |-> h, fetch |-> f] :
        h \in AllHours,
        f \in {[how |-> "nokey", data |-> NoWeather], [how |-> "fail", data |-> NoWeather]}
                \cup {[how |-> "response", data |-> p] :
                         p \in TablePayloads \cup {ErrorPayload}}}

\* The hours and answers of Spec, each staying as it is.
EnvSamples == {[hour |-> h, fetch |-> f] : h \in SampleHours, f \in Fetches}

\* The automatic record an earlier run left, with the last_temp it applied.
EarlierRun(temp) == JsonFile([DefaultState EXCEPT !.last_temp = temp])

\* No state file, or the record of an earlier run; conditions out of choices.
InitEnvOver(files, choices) ==
    /\ file \in files
    /\ wcache = NoWeather
    /\ display = NoDisplay
    /\ daemon = [pc |-> "off", st |-> Blank]
    /\ out = [op |-> "none", mode0 |-> "Automatic", applied |-> <<>>,
              notes |-> <<>>, raised |-> FALSE, decided |-> 0,
              prevMode0 |-> "none"]
    /\ wr = IdleWrite
    /\ rd = NoRead
    /\ env \in choices
    /\ seen = NotSeen
    /\ proc = NoProc

InitEnv == InitEnvOver({MissingFile, EarlierRun(MANUAL_OFF)}, EnvChoices)

InitEnvSamples ==
    InitEnvOver({MissingFile, EarlierRun(DAY_CLEAR), EarlierRun(NIGHT_DEFAULT),
                 EarlierRun(DAY_RAINY)},
                EnvSamples)

\* The daemon's start under the conditions of env.
EnvStart ==
    /\ daemon.pc \in {"off", "crashed", "stopped"}
    /\ wr.pc = "idle"
    /\ \E launch \in LaunchOutcomes :
           LET c1 == run_daemon_start(CliStart, env.hour, env.fetch, launch)
           IN /\ Commit("start", CliStart, c1)
              /\ daemon' = [pc |-> IF c1.raised THEN "crashed" ELSE "loop",
                            st |-> c1.st]
    /\ UNCHANGED <<wr, rd, aux>>

\* One iteration of the loop under the conditions of env, with the outcome
\* of the launch it may attempt.
EnvTick(launch) ==
    /\ daemon.pc \in {"loop", "sleep", "backoff"}
    /\ wr.pc = "idle"
    /\ LET c0 == Ctx(daemon.st)
           c1 == update_temperature(c0, env.hour, env.fetch, launch)
       IN /\ Commit("tick", c0, c1)
          /\ daemon' = [pc |-> IF c1.raised THEN "backoff" ELSE "sleep",
                        st |-> c1.st]
    /\ UNCHANGED <<wr, rd, aux>>

EnvTickAny == \E launch \in LaunchOutcomes : EnvTick(launch)

EnvTickLaunched == EnvTick("ok")

NextEnv ==
    \/ EnvStart
    \/ EnvTickAny

SpecEnv == InitEnv /\ [][NextEnv]_vars

\* The loop of run_daemon never ends and sleeps a bounded time, so a tick
\* that can run does; and the launch of hyprsunset is taken not to fail
\* for ever.
SpecEnvFair ==
    /\ InitEnvSamples
    /\ [][NextEnv]_vars
    /\ WF_vars(EnvTickAny)
    /\ WF_vars(EnvTickLaunched)

\* -------------------------------------------------------------------- claims

PersistedManual == file.kind = "json" /\ Has(file.obj, "manual") /\ file.obj.manual

ErrorNotes == {"error_not_installed", "error_setting_temperature"}

Announcements ==
    {"filter_toggled_on", "filter_toggled_off", "switched_to_manual_neutral",
     "switched_to_automatic"}

NotesOf(o) == {o.notes[i] : i \in 1..Len(o.notes)}

FailedLaunch(o) == \E i \in 1..Len(o.applied) : o.applied[i].launch # "ok"

\* C1: while the persisted record has manual = TRUE, a tick of the daemon is
\* a no-op: it applies no temperature, leaves the display process alone and
\* does not change the persisted record (so never writes manual = FALSE back).
C1_ManualRecordStopsReconcile ==
    [][(PersistedManual /\ out'.op = "tick")
          => (out'.applied = <<>> /\ display' = display /\ file' = file)]_vars

\* C2: in every state reachable from the default record, a persisted record
\* with manual = FALSE has bluelight = FALSE (and holds all three fields).
C2_AutomaticHasFilterOff ==
    file.kind = "json" =>
        /\ file.obj.keys = Fields
        /\ (~file.obj.manual => ~file.obj.bluelight)

\* C2 witness: `auto` run from Manual-FilterOn has written an automatic record.
C2_Witness ==
    /\ out.op = "auto"
    /\ out.mode0 = "Manual-FilterOn"
    /\ file.kind = "json"
    /\ ~file.obj.manual

\* C3: whenever update_temperature, in automatic mode, obtains a decided
\* temperature (in a tick, at the daemon's start, or in a switch to
\* automatic), it calls apply_temperature exactly once with that temperature
\* when it differs from the last_temp the process holds, and not at all when
\* it equals it: then the display process is left alone and, in the daemon,
\* the state file is not written.
C3_ReconcileAppliesOnlyOnChange ==
    [][out'.decided # 0 =>
          LET last == IF out'.op = "tick" THEN daemon.st.last_temp
                      ELSE load_state(file).last_temp
          IN IF out'.decided = last
             THEN /\ out'.applied = <<>>
                  /\ display' = display
                  /\ (out'.op \in {"tick", "start"} => file' = file)
             ELSE /\ Len(out'.applied) = 1
                  /\ out'.applied[1].temp = out'.decided]_vars

\* C3 witness: a tick in automatic mode decided the temperature the daemon
\* last applied, and applied nothing, while a display process is running.
C3_Witness ==
    /\ out.op = "tick"
    /\ out.mode0 = "Automatic"
    /\ out.decided # 0
    /\ out.decided = daemon.st.last_temp
    /\ out.applied = <<>>
    /\ display.running

\* C4: `toggle` run in automatic mode is rejected: the only notification is
\* the rejection, apply_temperature is not called, the display process is
\* left alone and the state file is unchanged.
C4_ToggleRejectedInAutomatic ==
    [][(out'.op = "toggle" /\ out'.mode0 = "Automatic")
          => /\ out'.notes = <<"cannot_toggle_in_automatic">>
             /\ out'.applied = <<>>
             /\ ~out'.raised
             /\ display' = display
             /\ file' = file]_vars

\* C4 witness: `toggle` was rejected with a complete automatic record on disk.
C4_Witness ==
    /\ out.op = "toggle"
    /\ out.mode0 = "Automatic"
    /\ out.notes = <<"cannot_toggle_in_automatic">>
    /\ file.kind = "json"
    /\ ~file.obj.manual

\* C5: after two consecutive runs of `manual`, the first started from any of
\* the three modes, the persisted manual flag is the one the first run found
\* and bluelight is FALSE; and a run of `manual` that starts in automatic mode
\* calls apply_temperature once, with 6500, which a successful launch makes
\* the temperature of the display and the persisted last_temp.
C5_ToggleManualTwice ==
    /\ (out.op = "manual" /\ out.prevMode0 # "none") =>
           /\ out.prevMode0 \in {"Automatic", "Manual-FilterOff", "Manual-FilterOn"}
           /\ file.kind = "json"
           /\ file.obj.manual = (out.prevMode0 # "Automatic")
           /\ ~file.obj.bluelight
    /\ (out.op = "manual" /\ out.mode0 = "Automatic") =>
           /\ Len(out.applied) = 1
           /\ out.applied[1].temp = MANUAL_OFF
           /\ MANUAL_OFF = 6500
           /\ file.kind = "json"
           /\ file.obj.manual
           /\ (out.applied[1].launch = "ok" =>
                  /\ display = [running |-> TRUE, temp |-> 6500]
                  /\ file.obj.last_temp = 6500)

\* C5 witness: `manual` twice from Manual-FilterOn: the second run entered
\* manual mode again and the display shows 6500.
C5_Witness ==
    /\ out.op = "manual"
    /\ out.prevMode0 = "Manual-FilterOn"
    /\ out.mode0 = "Automatic"
    /\ file.obj.manual
    /\ display = [running |-> TRUE, temp |-> 6500]

\* C6: the daemon process never terminates because of an error raised while
\* reconciling, the initial reconcile before the loop included.
C6_DaemonNeverDies == daemon.pc # "crashed"

\* C7: load_state yields the file's record when the file holds all three
\* fields, and exactly the default record for a missing file and for every
\* other content, so that every handler starts from a record with all three
\* fields.
C7_LoadYieldsCompleteRecord ==
    /\ (rd.done /\ rd.old = rd.new) =>
           rd.got = IF rd.old.kind = "json" /\ rd.old.obj.keys = Fields
                    THEN rd.old.obj ELSE DefaultState
    /\ out.mode0 # "Invalid"

\* C8 (as claimed): `test <kelvin>`, which is apply_temperature alone, changes
\* the persisted last_temp only when the launch succeeds, and when the launch
\* fails leaves the state file unchanged and the display process that was
\* running still in effect.
C8_FailedApplyLeavesDisplay ==
    [][(out'.op = "test" /\ FailedLaunch(out'))
          => (file' = file /\ display' = display)]_vars

\* C8 (amended): in every handler the persisted last_temp changes only to the
\* temperature of a launch that succeeded; and apply_temperature alone, when
\* the launch fails, leaves the state file unchanged, with no display process
\* in effect: the one that was running has been killed.
C8_FailedApplyLeavesRecord ==
    [][/\ load_state(file').last_temp # load_state(file).last_temp
          => /\ Len(out'.applied) = 1
             /\ out'.applied[1].launch = "ok"
             /\ load_state(file').last_temp = out'.applied[1].temp
       /\ (out'.op = "test" /\ FailedLaunch(out'))
          => (file' = file /\ display' = NoDisplay)
       /\ (out'.op = "test" /\ ~FailedLaunch(out'))
          => /\ file'.kind = "json"
             /\ file'.obj.last_temp = out'.applied[1].temp
             /\ display' = [running |-> TRUE, temp |-> out'.applied[1].temp]]_vars

\* C8 witness: a failed `test` left the record of the 6500 applied before it,
\* and no display process.
C8_Witness ==
    /\ out.op = "test"
    /\ FailedLaunch(out)
    /\ file.kind = "json"
    /\ file.obj.last_temp = 6500
    /\ ~display.running

\* C9: when the launch fails during `toggle`, `manual` or `force-manual`, the
\* error is notified and no notification announces the new mode or filter
\* state.
C9_FailedLaunchAborts ==
    (out.op \in {"toggle", "manual", "force-manual"} /\ FailedLaunch(out))
        => /\ NotesOf(out) \cap ErrorNotes # {}
           /\ NotesOf(out) \cap Announcements = {}

\* C10: a load_state that runs while another process saves observes the
\* record of the file before the save or the record being saved.
C10_LoadSeesOldOrNew ==
    rd.done => rd.got \in {load_state(rd.old), load_state(rd.new)}

\* C11: after any sequence of fetches, get_weather returns the payload of
\* the last fetch that succeeded (absent when none did), and the weather cache
\* holds that payload: a fetch that fails never replaces it.
C11_CacheOnlyFromSuccess ==
    seen.done => (seen.returned = seen.lastGood /\ wcache = seen.lastGood)

\* The weather calculate_temperature works with under the conditions of env.
EnvWeather == IF env.fetch.how = "response" THEN env.fetch.data ELSE wcache

EnvDecidable == ~EnvWeather.present \/ EnvWeather.ok

\* C12: for every hour 0..23, every condition of the table or no weather, and
\* every ambient temperature within AmbientRadius tenths of 5.0, the decided
\* temperature is the one of the table: night is h < 6 or h >= 20; without
\* weather 4200 at night and 6500 by day; at night 3800 for Rain, Drizzle and
\* Thunderstorm whatever the ambient temperature, otherwise 3800 below 5.0
\* and 4200 from 5.0 on; by day 6500 for Clear, 5200 for Rain, Drizzle and
\* Thunderstorm, 5800 for anything else.
C12_DecidedMatchesTable ==
    (out.op \in {"start", "tick"} /\ EnvDecidable) =>
        LET h == env.hour
            w == EnvWeather
            night == h < 6 \/ h >= 20
            rainy == w.main \in {"Rain", "Drizzle", "Thunderstorm"}
        IN /\ ~out.raised
           /\ out.decided =
                 IF ~w.present THEN (IF night THEN 4200 ELSE 6500)
                 ELSE IF night
                 THEN (IF rainy THEN 3800 ELSE IF w.temp < 50 THEN 3800 ELSE 4200)
                 ELSE (IF w.main = "Clear" THEN 6500
                       ELSE IF rainy THEN 5200 ELSE 5800)

\* C12 witness: a tick at hour 20 under a clear sky at exactly 5.0 degrees
\* decided 4200.
C12_Witness ==
    /\ out.op = "tick"
    /\ env.hour = 20
    /\ EnvWeather = Payload("Clear", 50)
    /\ out.decided = 4200

ManualModes == {"Manual-FilterOn", "Manual-FilterOff"}

\* C13: `auto` run in automatic mode and `force-manual` run in manual mode
\* only notify: the state file and the display process are left as they are
\* and apply_temperature is not called (so `force-manual` in Manual-FilterOn
\* keeps bluelight = TRUE); and the second of two consecutive runs of either
\* command leaves the state file as the first left it.
C13_SwitchesIdempotent ==
    [][/\ (out'.op = "auto" /\ out'.mode0 = "Automatic")
          => /\ out'.notes = <<"already_automatic">>
             /\ out'.applied = <<>>
             /\ ~out'.raised
             /\ file' = file
             /\ display' = display
       /\ (out'.op = "force-manual" /\ out'.mode0 \in ManualModes)
          => /\ out'.notes = <<"already_manual">>
             /\ out'.applied = <<>>
             /\ ~out'.raised
             /\ file' = file
             /\ display' = display
             /\ file'.obj.bluelight = (out'.mode0 = "Manual-FilterOn")
       /\ (out'.op \in {"auto", "force-manual"} /\ out'.prevMode0 # "none")
          => file' = file]_vars

\* C13 witness: `force-manual` run in Manual-FilterOn only notified, and the
\* filter flag is still set.
C13_Witness ==
    /\ out.op = "force-manual"
    /\ out.mode0 = "Manual-FilterOn"
    /\ out.notes = <<"already_manual">>
    /\ file.obj.manual
    /\ file.obj.bluelight

\* C14: a command the dispatch does not know, and `test` without an integer
\* temperature, prints an error, exits with a status other than 0, leaves the
\* state file and the display process as they are and does not call
\* apply_temperature.
C14_UsageErrorExitsNonzero ==
    [][out'.op \in UsageCommands
          => /\ proc'.cmd = out'.op
             /\ proc'.printed # "none"
             /\ proc'.exit # 0
             /\ out'.applied = <<>>
             /\ file' = file
             /\ display' = display]_vars

\* C15: a daemon stopped by a signal, SIGINT or SIGTERM, wherever in the loop
\* it was, has sent the stopping notification and exited with status 0.
C15_SignalStopsCleanly ==
    daemon.pc = "stopped"
        => /\ out.op = "signal"
           /\ out.notes = <<"service_stopped">>
           /\ proc.exit = 0

\* C16: `toggle` run in manual mode flips bluelight and calls
\* apply_temperature once, with MANUAL_ON (5000) when the flag becomes TRUE
\* and MANUAL_OFF (6500) when it becomes FALSE; manual stays TRUE, and after a
\* launch that succeeds the persisted last_temp and the display hold that
\* temperature.
C16_ToggleAppliesManualProfile ==
    [][(out'.op = "toggle" /\ out'.mode0 \in ManualModes)
          => LET on == out'.mode0 = "Manual-FilterOff"
                 temp == IF on THEN 5000 ELSE 6500
             IN /\ ~out'.raised
                /\ MANUAL_ON = 5000
                /\ MANUAL_OFF = 6500
                /\ Len(out'.applied) = 1
                /\ out'.applied[1].temp = temp
                /\ file'.kind = "json"
                /\ file'.obj.manual
                /\ file'.obj.bluelight = on
                /\ (out'.applied[1].launch = "ok"
                       => /\ file'.obj.last_temp = temp
                          /\ display' = [running |-> TRUE, temp |-> temp])]_vars

\* C16 witness: `toggle` switched the filter on and the display shows 5000.
C16_Witness ==
    /\ out.op = "toggle"
    /\ out.mode0 = "Manual-FilterOff"
    /\ file.obj.bluelight
    /\ file.obj.last_temp = 5000
    /\ display = [running |-> TRUE, temp |-> 5000]

\* C17: from every reachable record, for every hour, answer of the provider
\* and outcome of the launch, `force-manual` run in automatic mode ends with
\* the state file, the display process and the calls of apply_temperature
\* that `manual` ends with, and so does `auto` run in manual mode.
C17_SwitchesMatchToggle ==
    \A h \in SampleHours, fetch \in Fetches, launch \in LaunchOutcomes :
        LET c == CliStart
            t == toggle_manual_mode(c, h, fetch, launch)
            s == IF Mode(c.st) = "Automatic" THEN force_manual_mode(c, launch)
                 ELSE toggle_auto_mode(c, h, fetch, launch)
        IN /\ t.file = s.file
           /\ t.display = s.display
           /\ t.applied = s.applied
           /\ t.raised = s.raised

\* C17 witness: `force-manual` run in automatic mode with a launch that
\* failed has left a manual record, from which the two ways back to automatic
\* are compared.
C17_Witness ==
    /\ out.op = "force-manual"
    /\ out.mode0 = "Automatic"
    /\ FailedLaunch(out)
    /\ file.kind = "json"
    /\ file.obj.manual
    /\ display.running = FALSE

\* C18: a start of the daemon in automatic mode whose launches do not fail
\* leaves a display process running with the decided temperature, whatever
\* last_temp the state file held and whether or not a display process was
\* running.
C18_StartAppliesInitial ==
    [][(/\ daemon.pc # "loop"
        /\ daemon'.pc = "loop"
        /\ out'.mode0 = "Automatic"
        /\ out'.decided # 0
        /\ ~FailedLaunch(out'))
          => display' = [running |-> TRUE, temp |-> out'.decided]]_vars

\* C19 (as claimed): a display process in effect has the temperature of the
\* persisted last_temp, and a persisted last_temp other than the default 4500
\* is the temperature of a display process in effect.
C19_RecordNamesDisplay ==
    /\ display.running => load_state(file).last_temp = display.temp
    /\ load_state(file).last_temp # DEFAULT_LAST_TEMP
          => display = [running |-> TRUE, temp |-> load_state(file).last_temp]

\* C19 (amended): a display process in effect has the temperature of the
\* persisted last_temp; after a handler in which a launch failed no display
\* process is in effect, while the state file keeps a last_temp.
C19_DisplayMatchesRecord ==
    /\ display.running
          => (file.kind = "json" /\ file.obj.last_temp = display.temp)
    /\ FailedLaunch(out)
          => (~display.running /\ Has(load_state(file), "last_temp"))

\* C19 witness: a `test` whose launch succeeded after an earlier temperature
\* had been recorded: display and record agree on the new one.
C19_Witness ==
    /\ out.op = "test"
    /\ ~FailedLaunch(out)
    /\ display.running
    /\ display.temp # 6500
    /\ file.kind = "json"
    /\ file.obj.last_temp = display.temp
    /\ file.obj.manual

EnvTarget == auto_temp(env.hour, EnvWeather)

DaemonLooping == daemon.pc \in {"loop", "sleep", "backoff"}

Settled ==
    /\ daemon.st.last_temp = EnvTarget
    /\ file.kind = "json"
    /\ file.obj.last_temp = EnvTarget
    /\ display = [running |-> TRUE, temp |-> EnvTarget]

====
